---- MODULE Spec2Model ----
(***************************************************************************)
(* A model of the Solana exchange Telegram bot.                            *)
(*                                                                         *)
(*   Spec    the Telegraf bot of src/app/solana-bot/bot.js: the command    *)
(*           handlers start, price, wallet and trade, the one-shot         *)
(*           notification timer and the bot-level error handler.           *)
(*   SpecPy  the python-telegram-bot variant listed in src/EXPLANATION.md: *)
(*           the handlers start, help, send, register and monitor over     *)
(*           the in-memory WALLETS dictionary.                             *)
(*   SpecPyBalance  the balance handler of the same variant, which reads   *)
(*           and writes no state, over a few message texts.                *)
(*   SpecSeq, SpecLive  longer runs of the bot of bot.js over fewer        *)
(*           inputs, the second with the timer's fairness.                 *)
(*                                                                         *)
(* Message texts are sequences of characters, remote services answer with  *)
(* any of the outcomes listed below, and JavaScript numbers are IEEE-754   *)
(* doubles (53-bit significands) printed by Number::toString.              *)
(***************************************************************************)
EXTENDS Integers, Sequences, FiniteSets, TLC

\* ------------------------------------------------------------------ bounds

\* Commands received in one run of the JavaScript bot.
MaxCmds == 2
\* Characters that follow the command name in a message text.
MaxRest == 4
\* Commands handled in one run of the Python bot.
MaxPyCmds == 3

\* ------------------------------------------------------------ message text

\* The characters a message is made of after its command name: a space, a
\* well-formed key ("A", and "B" for the Python bot), a word that is no key
\* ("x"; the number "1" for the Python bot).  Words are one character long.
Chars == {" ", "A", "x"}
PyChars == {" ", "A", "B", "1"}

SeqsUpTo(S, n) == UNION {[1..k -> S] : k \in 0..n}

\* What may follow the command name: nothing, or a space and more (Telegram
\* ends the command entity at the first space), with a space between words.
RestsOver(S) ==
    {r \in SeqsUpTo(S, MaxRest) :
        /\ r = <<>> \/ r[1] = " "
        /\ \A i \in 1..(Len(r) - 1) : r[i] = " " \/ r[i + 1] = " "}

Rests == RestsOver(Chars)
PyRests == RestsOver(PyChars)

\* String.prototype.split(' '): the pieces between single spaces, empty
\* pieces included.  The command name is the first piece.
RECURSIVE SplitOnSpace(_, _, _)
SplitOnSpace(s, i, cur) ==
    IF i > Len(s) THEN <<cur>>
    ELSE IF s[i] = " " THEN <<cur>> \o SplitOnSpace(s, i + 1, <<>>)
    ELSE SplitOnSpace(s, i + 1, Append(cur, s[i]))

JsSplit(name, rest) == SplitOnSpace(rest, 1, <<name>>)

\* str.split() of Python: the maximal runs of non-blank characters.
NonEmpty(pieces) == SelectSeq(pieces, LAMBDA p : p # <<>>)
PySplit(name, rest) == NonEmpty(SplitOnSpace(rest, 1, <<name>>))

\* The message has a word after the command name; its first such word.
HasArgument(rest) == \E i \in 1..Len(rest) : rest[i] # " "

ArgumentOf(rest) ==
    LET i == CHOOSE i \in 1..Len(rest) : rest[i] # " " /\ \A j \in 1..(i - 1) : rest[j] = " "
        k == CHOOSE k \in i..Len(rest) :
                 (k = Len(rest) \/ rest[k + 1] = " ") /\ \A j \in i..k : rest[j] # " "
    IN  SubSeq(rest, i, k)

\* JavaScript's undefined, for an array index past the end.
Undefined == <<"undefined">>

\* ctx.message.text.split(' ')[1]
WalletAddressOf(name, rest) ==
    LET parts == JsSplit(name, rest)
    IN  IF Len(parts) >= 2 THEN parts[2] ELSE Undefined

\* !walletAddress: undefined and the empty string are falsy.
Falsy(v) == v = Undefined \/ v = <<>>

\* The keys new PublicKey(...) accepts: base-58 text that decodes to exactly
\* 32 bytes.  At the model's scale a key is one character long.
ValidAddresses == {<<"A">>, <<"B">>}

\* new PublicKey(value) / PublicKey(value): throws unless the text decodes.
PublicKeyThrows(value) == value \notin ValidAddresses

\* ------------------------------------------------------- JavaScript numbers

\* 1e9, the lamports in one SOL: the divisor of the wallet handler.
LamportsPerSol == 1000000000

\* The significand of an IEEE-754 double, hidden bit included.
SignificandBits == 53

\* An amount of lamports, hi * LamportsPerSol + lo with lo < LamportsPerSol:
\* the JSON integer of the getBalance response, kept in two limbs because it
\* exceeds TLC's integers.  Amounts stay below 2^60.
Lamports(hi, lo) == [hi |-> hi, lo |-> lo]

BigLess(a, b) == a.hi < b.hi \/ (a.hi = b.hi /\ a.lo < b.lo)

BigTwice(a) ==
    [hi |-> 2 * a.hi + (2 * a.lo) \div LamportsPerSol, lo |-> (2 * a.lo) % LamportsPerSol]

BigPlus(a, n) ==
    [hi |-> a.hi + (a.lo + n) \div LamportsPerSol, lo |-> (a.lo + n) % LamportsPerSol]

RECURSIVE Pow(_, _)
Pow(b, e) == IF e = 0 THEN 1 ELSE b * Pow(b, e - 1)

\* 2^53 = 9007199254740992, the first integer whose successor is no double.
TwoToSignificand == Lamports(9007199, 254740992)

\* The spacing of the doubles around v >= th = 2^e, given the spacing u of
\* those in [2^e, 2^(e+1)).
RECURSIVE SpacingAt(_, _, _)
SpacingAt(v, th, u) ==
    IF BigLess(v, BigTwice(th)) THEN u ELSE SpacingAt(v, BigTwice(th), 2 * u)

\* JSON.parse of an integer literal: the nearest double, ties to the even
\* significand.  Integers below 2^53 are doubles; from there on doubles are
\* spaced u = 2, 4, ... apart (u divides LamportsPerSol, so v mod u = lo mod u).
ToNumber(v) ==
    IF BigLess(v, TwoToSignificand) THEN v
    ELSE LET u    == SpacingAt(v, TwoToSignificand, 2)
             rem  == v.lo % u
             down == Lamports(v.hi, v.lo - rem)
             up   == BigPlus(down, u)
         IN  IF 2 * rem < u THEN down
             ELSE IF 2 * rem > u THEN up
             ELSE IF down.lo % (2 * u) = 0 THEN down ELSE up

RECURSIVE BitLen(_)
BitLen(n) == IF n = 0 THEN 0 ELSE 1 + BitLen(n \div 2)

\* A binary fraction is a sequence of limbs of Limb.bits bits each, the most
\* significant first, with no zero limb at its end.
Limb == [bits |-> 15, base |-> 32768]

\* The first j <= Limb.bits bits of the binary expansion of num / den
\* (num < den), as a number, and the remainder left after them.
RECURSIVE DivChunk(_, _, _)
DivChunk(num, den, j) ==
    IF j = 0 THEN [q |-> 0, rem |-> num]
    ELSE LET b == IF 2 * num >= den THEN 1 ELSE 0
             r == DivChunk(2 * num - b * den, den, j - 1)
         IN  [q |-> b * Pow(2, j - 1) + r.q, rem |-> r.rem]

\* The first n bits of num / den as limbs (the last one filled up with zero
\* bits), and the remainder left after them.
RECURSIVE DivLimbs(_, _, _)
DivLimbs(num, den, n) ==
    IF n = 0 THEN [limbs |-> <<>>, rem |-> num]
    ELSE IF n <= Limb.bits
    THEN LET c == DivChunk(num, den, n)
         IN  [limbs |-> <<c.q * Pow(2, Limb.bits - n)>>, rem |-> c.rem]
    ELSE LET c == DivChunk(num, den, Limb.bits)
             r == DivLimbs(c.rem, den, n - Limb.bits)
         IN  [limbs |-> <<c.q>> \o r.limbs, rem |-> r.rem]

\* The zero bits before the first one bit of num / den (0 < num < den).
RECURSIVE LeadingZeros(_, _)
LeadingZeros(num, den) ==
    IF 2 * num >= den THEN 0 ELSE 1 + LeadingZeros(2 * num, den)

\* A binary fraction plus a (a unit in the last place of interest).
RECURSIVE AddLast(_, _)
AddLast(limbs, a) ==
    IF limbs = <<>> THEN [limbs |-> <<>>, carry |-> a]
    ELSE LET n     == Len(limbs)
             front == SubSeq(limbs, 1, n - 1)
             v     == limbs[n] + a
         IN  IF v < Limb.base THEN [limbs |-> Append(front, v), carry |-> 0]
             ELSE LET r == AddLast(front, 1)
                  IN  [limbs |-> Append(r.limbs, v - Limb.base), carry |-> r.carry]

RECURSIVE StripZeros(_)
StripZeros(s) ==
    IF s # <<>> /\ s[Len(s)] = 0 THEN StripZeros(SubSeq(s, 1, Len(s) - 1)) ELSE s

\* The double nearest to int + num / den (num < den <= LamportsPerSol): its
\* integer part and the limbs of its fraction.  A double holds
\* SignificandBits bits from its leading one bit on; ties go to the even
\* significand.
RoundToDouble(int, num, den) ==
    LET n   == IF int > 0 THEN SignificandBits - BitLen(int)
               ELSE IF num = 0 THEN 0
               ELSE LeadingZeros(num, den) + SignificandBits
        d   == DivLimbs(num, den, n)
        ulp == Pow(2, (Limb.bits - (n % Limb.bits)) % Limb.bits)
        odd == IF n = 0 THEN int % 2 = 1 ELSE (d.limbs[Len(d.limbs)] \div ulp) % 2 = 1
        up  == 2 * d.rem > den \/ (2 * d.rem = den /\ odd)
        inc == AddLast(d.limbs, ulp)
    IN  IF up THEN [int |-> int + inc.carry, frac |-> StripZeros(inc.limbs)]
        ELSE [int |-> int, frac |-> StripZeros(d.limbs)]

\* balance / 1e9 of the wallet handler: the double nearest to the quotient.
LamportsToSol(balance) == RoundToDouble(balance.hi, balance.lo, LamportsPerSol)

\* Ten times a binary fraction, limbs 1..i: the new limbs and the carry out.
RECURSIVE MulTenAt(_, _, _)
MulTenAt(limbs, i, carry) ==
    IF i = 0 THEN [limbs |-> <<>>, carry |-> carry]
    ELSE LET v == limbs[i] * 10 + carry
             r == MulTenAt(limbs, i - 1, v \div Limb.base)
         IN  [limbs |-> Append(r.limbs, v % Limb.base), carry |-> r.carry]

\* The first k decimal digits of a binary fraction and what is left of it.
RECURSIVE DecExpand(_, _)
DecExpand(limbs, k) ==
    IF k = 0 THEN [digits |-> <<>>, rest |-> limbs]
    ELSE LET m == MulTenAt(limbs, Len(limbs), 0)
             r == DecExpand(m.limbs, k - 1)
         IN  [digits |-> <<m.carry>> \o r.digits, rest |-> r.rest]

RECURSIVE DigitsValue(_)
DigitsValue(ds) ==
    IF ds = <<>> THEN 0 ELSE 10 * DigitsValue(SubSeq(ds, 1, Len(ds) - 1)) + ds[Len(ds)]

\* The decimal with k fraction digits nearest to the double q (a tie goes to
\* the even last digit): int + frac / 10^k.
RoundDec(q, k) ==
    LET e       == DecExpand(q.frac, k)
        half    == e.rest # <<>> /\ 2 * e.rest[1] >= Limb.base
        exact   == half /\ 2 * e.rest[1] = Limb.base
                        /\ \A i \in 2..Len(e.rest) : e.rest[i] = 0
        lastOdd == IF k = 0 THEN q.int % 2 = 1 ELSE e.digits[k] % 2 = 1
        up      == half /\ (~exact \/ lastOdd)
        scaled  == DigitsValue(e.digits) + (IF up THEN 1 ELSE 0)
    IN  [int  |-> q.int + (IF scaled = Pow(10, k) THEN 1 ELSE 0),
         frac |-> scaled % Pow(10, k),
         k    |-> k]

\* The most fraction digits Number::toString needs for a quotient by
\* LamportsPerSol: the nine of the exact quotient.
MaxFractionDigits == 9

\* The decimal reads back (parses) as the double q.
RoundTrips(q, dec) ==
    q = RoundToDouble(dec.int, dec.frac * Pow(10, MaxFractionDigits - dec.k),
                      Pow(10, MaxFractionDigits))

\* The digits Number::toString prints for the double q nearest to x / 1e9:
\* the shortest decimal that reads back as q, the nearest to q of that length.
ShortestDecimal(q, x) ==
    LET ks == {k \in 0..MaxFractionDigits : RoundTrips(q, RoundDec(q, k))}
    IN  IF ks = {} THEN [int |-> x.hi, frac |-> x.lo, k |-> MaxFractionDigits]
        ELSE RoundDec(q, CHOOSE k \in ks : \A j \in ks : k <= j)

DigitChars == <<"0", "1", "2", "3", "4", "5", "6", "7", "8", "9">>

RECURSIVE NatToChars(_)
NatToChars(n) ==
    IF n < 10 THEN <<DigitChars[n + 1]>>
    ELSE Append(NatToChars(n \div 10), DigitChars[(n % 10) + 1])

\* n written with exactly k digits, zeros in front.
RECURSIVE Padded(_, _)
Padded(n, k) ==
    IF k = 0 THEN <<>> ELSE Append(Padded(n \div 10, k - 1), DigitChars[(n % 10) + 1])

RECURSIVE StripZeroChars(_)
StripZeroChars(s) ==
    IF s # <<>> /\ s[Len(s)] = "0" THEN StripZeroChars(SubSeq(s, 1, Len(s) - 1)) ELSE s

\* Number::toString writes a number below 1e-6 (six zeros or more after the
\* point) in exponent form.
ExponentFormZeros == 6

\* Number::toString of a non-negative decimal: "2.5", "0", "0.000001",
\* "1e-9", "9.99e-7".
DecimalToString(dec) ==
    LET fr == StripZeroChars(Padded(dec.frac, dec.k))   \* fraction digits
        sg == NatToChars(dec.frac)                       \* from the first non-zero one
        s  == StripZeroChars(sg)
        z  == dec.k - Len(sg)                            \* zeros after the point
    IN  IF dec.frac = 0 THEN NatToChars(dec.int)
        ELSE IF dec.int = 0 /\ z >= ExponentFormZeros
        THEN <<s[1]>> \o (IF Len(s) > 1 THEN <<".">> \o SubSeq(s, 2, Len(s)) ELSE <<>>)
             \o <<"e", "-">> \o NatToChars(z + 1)
        ELSE NatToChars(dec.int) \o <<".">> \o fr

\* `${tokenBalance}` for tokenBalance = balance / 1e9, balance a Number.
NumberToString(balance) == DecimalToString(ShortestDecimal(LamportsToSol(balance), balance))

\* Number.prototype.toFixed(2) of a quoted price.  Prices are held in
\* thousandths (149994 is 149.994); toFixed rounds to the nearest cent.
ToFixed2(price) ==
    LET cents == (price + 5) \div 10
    IN  NatToChars(cents \div 100) \o <<".">> \o Padded(cents % 100, 2)

\* ------------------------------------------------------- remote services

\* error.message of what the libraries throw.
NetworkError  == [name |-> "Error", message |-> "connect ETIMEDOUT"]
StatusError   == [name |-> "AxiosError", message |-> "Request failed with status code 500"]
TypeError     == [name |-> "TypeError", message |-> "Cannot read properties of undefined (reading 'toFixed')"]
KeyError      == [name |-> "Error", message |-> "Invalid public key input"]
RpcError      == [name |-> "SolanaJSONRPCError", message |-> "failed to get balance of account"]
TransportError == [name |-> "TelegramError", message |-> "403: Forbidden: bot was blocked by the user"]

\* The SOL prices the market-data endpoint quotes, in thousandths.
PriceValues == {0, 149994, 149996}

\* The body of a market-data response as axios hands it over: text that is
\* no JSON stays a string, JSON null is null, an object has a SOL field or
\* none, and the field is a number or not.
Bodies ==
    {[type |-> "string"], [type |-> "null"],
     [type |-> "object", SOL |-> [type |-> "undefined"]],
     [type |-> "object", SOL |-> [type |-> "string"]]}
    \cup {[type |-> "object", SOL |-> [type |-> "number", value |-> v]] : v \in PriceValues}

\* What axios.get(url) may settle to: a network failure, a response with a
\* status outside 2xx (axios rejects those), or a 2xx response with a body.
AxiosOutcomes ==
    {[kind |-> "rejected", error |-> NetworkError], [kind |-> "status", error |-> StatusError]}
    \cup {[kind |-> "response", data |-> d] : d \in Bodies}

\* The balances the RPC endpoint reports, in lamports: nothing, one lamport,
\* 2.5 SOL, and two large accounts (2^23 SOL and one lamport; 2^53 + 1
\* lamports).
BalanceValues ==
    {Lamports(0, 0), Lamports(0, 1), Lamports(2, 500000000),
     Lamports(8388608, 1), Lamports(9007199, 254740993)}

\* What solanaConnection.getBalance(publicKey) may settle to: the number of
\* the response, or a rejection (no connection; an error response or a body
\* that is no balance).
RpcOutcomes ==
    {[kind |-> "value", value |-> v] : v \in BalanceValues}
    \cup {[kind |-> "rejected", error |-> e] : e \in {NetworkError, RpcError}}

NoResult == [kind |-> "none"]

\* ------------------------------------------------------------ the replies

\* A reply is the text of its message, without the emoji that ends it, and
\* what is printed into it.

Reply(msg, arg) == [msg |-> msg, arg |-> arg]

StartReply         == Reply("Welcome to the Solana Exchange Bot!", <<>>)
TradeReply         == Reply("Trading functionality is under development. Stay tuned!", <<>>)
PriceReply(price)  == Reply("Current SOL/USDC price: $", price)
PriceFailureReply  == Reply("Failed to fetch token price. Please try again later.", <<>>)
WalletUsageReply   == Reply("Please provide a valid Solana wallet address. Example: /wallet <address>", <<>>)
WalletReply(sol)   == Reply("Wallet balance: SOL", sol)
WalletFailureReply == Reply("Invalid wallet address or failed to fetch balance. Please try again.", <<>>)

LogEntry(prefix, error) == [prefix |-> prefix, text |-> error.message]

\* What a stretch of handler code does: the replies it sends with ctx.reply,
\* the lines it writes with console.error, whether the promise of its reply
\* is left floating (neither awaited nor returned), and where the handler
\* stands afterwards.
Step(rs, ls, floating, to) == [replies |-> rs, logs |-> ls, floating |-> floating, pc |-> to]

\* A catch block of the price handler that logs and sends nothing.
PriceCatchSilent(error) ==
    Step(<<>>, <<LogEntry("Error fetching token price:", error)>>, FALSE, "done")

\* A try block of the price handler that prints whatever the SOL field holds.
PriceTryUnchecked(out) ==
    IF out.kind # "response" THEN [threw |-> TRUE, error |-> out.error]
    ELSE IF out.data.type = "object"
    THEN [threw |-> FALSE,
          reply |-> PriceReply(IF out.data.SOL.type = "number"
                               THEN ToFixed2(out.data.SOL.value) ELSE <<"N", "a", "N">>)]
    ELSE [threw |-> TRUE, error |-> TypeError]

\* A catch block of the wallet handler that puts the error's message into
\* the reply.
WalletCatchVerbose(error) ==
    Step(<<Reply("Invalid wallet address or failed to fetch balance. Please try again.",
                 <<error.message>>)>>,
         <<LogEntry("Error fetching wallet balance:", error)>>, TRUE, "done")

\* bot.command('price'): the try block after the await, for the outcome of
\* axios.get.  response.data.SOL.toFixed(2) throws a TypeError unless data is
\* an object whose SOL is a number.
PriceTry(out) ==
    IF out.kind # "response" THEN [threw |-> TRUE, error |-> out.error]
    ELSE IF out.data.type = "object" /\ out.data.SOL.type = "number"
    THEN [threw |-> FALSE, reply |-> PriceReply(ToFixed2(out.data.SOL.value))]
    ELSE [threw |-> TRUE, error |-> TypeError]

\* bot.command('price'): the catch block.
PriceCatch(error) ==
    Step(<<PriceFailureReply>>, <<LogEntry("Error fetching token price:", error)>>, TRUE, "done")

\* bot.command('price'), from the await on.
PriceAfterAwait(out) ==
    LET t == PriceTry(out)
    IN  IF t.threw THEN PriceCatch(t.error) ELSE Step(<<t.reply>>, <<>>, TRUE, "done")

\* bot.command('wallet'): the catch block.
WalletCatch(error) ==
    Step(<<WalletFailureReply>>, <<LogEntry("Error fetching wallet balance:", error)>>, TRUE, "done")

\* bot.command('wallet'), up to the await: the usage hint (its promise is
\* returned to Telegraf), the catch block when new PublicKey throws, or the
\* balance request.
WalletBeforeAwait(name, rest) ==
    LET walletAddress == WalletAddressOf(name, rest)
    IN  IF Falsy(walletAddress) THEN Step(<<WalletUsageReply>>, <<>>, FALSE, "done")
        ELSE IF PublicKeyThrows(walletAddress) THEN WalletCatch(KeyError)
        ELSE Step(<<>>, <<>>, FALSE, "awaitBalance")

\* bot.command('wallet'), from the await on: balance is the Number of the
\* response, tokenBalance = balance / 1e9 is printed into the reply.
WalletAfterAwait(out) ==
    IF out.kind = "rejected" THEN WalletCatch(out.error)
    ELSE Step(<<WalletReply(NumberToString(ToNumber(out.value)))>>, <<>>, TRUE, "done")

\* --------------------------------------------------- the bot of bot.js

VARIABLES
    cmd,            \* cmd[c]: the c-th command message received, its name and the rest of its text
    pc,             \* pc[c]: where its handler stands: idle, awaitPrice, awaitBalance, done
    calls,          \* calls[c]: the remote requests its handler issued
    result,         \* result[c]: what its remote request settled to
    replies,        \* replies[c]: the ctx.reply calls of its handler, and whether Telegram took them
    logs,           \* logs[c]: the console.error lines of its handler
    unhandled,      \* the commands with a rejected reply promise nobody handles
    botErrors,      \* the console.error lines of bot.catch
    proc,           \* the Node process: running or crashed
    timer,          \* the setTimeout of the notification: pending or fired
    notifications,  \* the sendMessage calls of sendNotification
    notifyLogs      \* the console.error lines of sendNotification

jsVars == <<cmd, pc, calls, result, replies, logs, unhandled, botErrors, proc, timer,
            notifications, notifyLogs>>

\* The state of the bot of EXPLANATION.md (bot.py), a program of its own.
VARIABLES
    WALLETS,     \* the dictionary of registered wallets: user id -> public key text
    pyCount,     \* the commands handled so far
    pyLast,      \* the last command handled: sender, name, text, endpoint, what the handler did
    registered   \* history: the keys each user registered, in the order of their commands

pyVars == <<WALLETS, pyCount, pyLast, registered>>
vars == <<jsVars, pyVars>>

\* The commands of a run, numbered in the order they arrive.
Cmds == DOMAIN pc

\* The names bot.command registers a handler for.
Registered == {"start", "price", "wallet", "trade"}

\* Command names users send that bot.js registers nothing for.
OtherNames == {"balance", "help", "foo"}

NoCmd == [name |-> "", rest |-> <<>>]

\* The chat id and text of the one notification bot.js schedules.
NotificationChatId == 123456789
NotificationText == "Price Alert: SOL/USDC has increased by 5%!"

\* The bot after launch, before the first of n commands.
InitBot(n) ==
    /\ cmd = [c \in 1..n |-> NoCmd]
    /\ pc = [c \in 1..n |-> "idle"]
    /\ calls = [c \in 1..n |-> <<>>]
    /\ result = [c \in 1..n |-> NoResult]
    /\ replies = [c \in 1..n |-> <<>>]
    /\ logs = [c \in 1..n |-> <<>>]
    /\ unhandled = {}
    /\ botErrors = <<>>
    /\ proc = "running"
    /\ timer = "pending"
    /\ notifications = <<>>
    /\ notifyLogs = <<>>

InitJs == InitBot(MaxCmds)

\* Telegraf hands the next update to the middleware chain: commands are
\* numbered in the order they arrive.
Arrives(c) == proc = "running" /\ pc[c] = "idle" /\ \A d \in 1..(c - 1) : pc[d] # "idle"

Sent(step, delivered) ==
    [i \in 1..Len(step.replies) |-> [reply |-> step.replies[i], delivered |-> delivered]]

\* The effects of a stretch of handler code of command c.  A reply Telegram
\* rejects (delivered is false) rejects the promise of ctx.reply: a returned
\* promise takes the rejection to bot.catch, a floating one leaves an
\* unhandled rejection, on which Node warns or ends the process, depending on
\* its version and flags (fatal).
Run(c, step, delivered, fatal) ==
    LET failed == step.replies # <<>> /\ ~delivered
    IN  /\ fatal => failed /\ step.floating
        /\ step.replies = <<>> => delivered
        /\ replies' = [replies EXCEPT ![c] = @ \o Sent(step, delivered)]
        /\ logs' = [logs EXCEPT ![c] = @ \o step.logs]
        /\ pc' = [pc EXCEPT ![c] = step.pc]
        /\ unhandled' = IF failed /\ step.floating THEN unhandled \cup {c} ELSE unhandled
        /\ botErrors' = IF failed /\ ~step.floating
                        THEN Append(botErrors, LogEntry("Bot error:", TransportError))
                        ELSE botErrors
        /\ proc' = IF fatal THEN "crashed" ELSE proc

\* bot.command('start', ...)
Start(c, delivered, fatal) ==
    /\ Arrives(c)
    /\ cmd' = [cmd EXCEPT ![c] = [name |-> "start", rest |-> <<>>]]
    /\ Run(c, Step(<<StartReply>>, <<>>, TRUE, "done"), delivered, fatal)
    /\ UNCHANGED <<calls, result, timer, notifications, notifyLogs, pyVars>>

\* bot.command('trade', ...)
Trade(c, delivered, fatal) ==
    /\ Arrives(c)
    /\ cmd' = [cmd EXCEPT ![c] = [name |-> "trade", rest |-> <<>>]]
    /\ Run(c, Step(<<TradeReply>>, <<>>, TRUE, "done"), delivered, fatal)
    /\ UNCHANGED <<calls, result, timer, notifications, notifyLogs, pyVars>>

\* A command no bot.command matches: the update falls through the middleware
\* chain and nothing replies.
NoHandler(c, name) ==
    /\ Arrives(c)
    /\ name \notin Registered
    /\ cmd' = [cmd EXCEPT ![c] = [name |-> name, rest |-> <<>>]]
    /\ Run(c, Step(<<>>, <<>>, FALSE, "done"), TRUE, FALSE)
    /\ UNCHANGED <<calls, result, timer, notifications, notifyLogs, pyVars>>

PriceUrl == "https://api.raydium.io/v2/sdk/tokens/price?token=SOL"

\* A price handler that answers before its request has settled.
PriceRequestEager(c) ==
    /\ Arrives(c)
    /\ cmd' = [cmd EXCEPT ![c] = [name |-> "price", rest |-> <<>>]]
    /\ calls' = [calls EXCEPT ![c] = Append(@, [api |-> "axios.get", arg |-> <<PriceUrl>>])]
    /\ Run(c, Step(<<PriceFailureReply>>, <<>>, TRUE, "awaitPrice"), TRUE, FALSE)
    /\ UNCHANGED <<result, timer, notifications, notifyLogs, pyVars>>

\* bot.command('price', ...) up to the await: the request goes out.
PriceRequest(c) ==
    /\ Arrives(c)
    /\ cmd' = [cmd EXCEPT ![c] = [name |-> "price", rest |-> <<>>]]
    /\ calls' = [calls EXCEPT ![c] = Append(@, [api |-> "axios.get", arg |-> <<PriceUrl>>])]
    /\ Run(c, Step(<<>>, <<>>, FALSE, "awaitPrice"), TRUE, FALSE)
    /\ UNCHANGED <<result, timer, notifications, notifyLogs, pyVars>>

\* A price handler that sends its request once more after a rejection.
PriceResumeRetry(c, out, delivered, fatal) ==
    /\ proc = "running"
    /\ pc[c] = "awaitPrice"
    /\ IF out.kind = "rejected" /\ Len(calls[c]) < 2
       THEN /\ calls' = [calls EXCEPT ![c] = Append(@, [api |-> "axios.get", arg |-> <<PriceUrl>>])]
            /\ Run(c, Step(<<>>, <<>>, FALSE, "awaitPrice"), delivered, fatal)
            /\ UNCHANGED result
       ELSE /\ result' = [result EXCEPT ![c] = out]
            /\ Run(c, PriceAfterAwait(out), delivered, fatal)
            /\ UNCHANGED calls
    /\ UNCHANGED <<cmd, timer, notifications, notifyLogs, pyVars>>

\* bot.command('price', ...) resumes when axios.get settles.
PriceResume(c, out, delivered, fatal) ==
    /\ proc = "running"
    /\ pc[c] = "awaitPrice"
    /\ result' = [result EXCEPT ![c] = out]
    /\ Run(c, PriceAfterAwait(out), delivered, fatal)
    /\ UNCHANGED <<cmd, calls, timer, notifications, notifyLogs, pyVars>>

\* bot.command('wallet', ...) up to the await (or to its end).
WalletRequest(c, rest, delivered, fatal) ==
    LET step == WalletBeforeAwait("/wallet", rest)
    IN  /\ Arrives(c)
        /\ cmd' = [cmd EXCEPT ![c] = [name |-> "wallet", rest |-> rest]]
        /\ calls' = [calls EXCEPT ![c] =
                        IF step.pc = "awaitBalance"
                        THEN Append(@, [api |-> "getBalance", arg |-> WalletAddressOf("/wallet", rest)])
                        ELSE @]
        /\ Run(c, step, delivered, fatal)
        /\ UNCHANGED <<result, timer, notifications, notifyLogs, pyVars>>

\* A wallet handler that numbers its balance replies.
WalletResumeNumbered(c, out) ==
    /\ proc = "running"
    /\ pc[c] = "awaitBalance"
    /\ result' = [result EXCEPT ![c] = out]
    /\ \E step \in {WalletAfterAwait(out)}, delivered, fatal \in BOOLEAN :
          Run(c, [step EXCEPT !.replies =
                     [i \in 1..Len(@) |-> Reply(@[i].msg, @[i].arg \o <<DigitChars[c + 1]>>)]],
              delivered, fatal)
    /\ UNCHANGED <<cmd, calls, timer, notifications, notifyLogs, pyVars>>

\* bot.command('wallet', ...) resumes when getBalance settles.
WalletResume(c, out) ==
    /\ proc = "running"
    /\ pc[c] = "awaitBalance"
    /\ result' = [result EXCEPT ![c] = out]
    /\ \E step \in {WalletAfterAwait(out)}, delivered, fatal \in BOOLEAN :
          Run(c, step, delivered, fatal)
    /\ UNCHANGED <<cmd, calls, timer, notifications, notifyLogs, pyVars>>

\* A timer callback that runs a second time.
TimerFiresTwice(delivered) ==
    /\ proc = "running"
    /\ timer = "pending"
    /\ timer' = IF notifications = <<>> THEN "pending" ELSE "fired"
    /\ notifications' = Append(notifications,
                               [chatId |-> NotificationChatId, message |-> NotificationText,
                                delivered |-> delivered])
    /\ notifyLogs' = IF delivered THEN notifyLogs
                     ELSE Append(notifyLogs, LogEntry("Error sending notification:", TransportError))
    /\ UNCHANGED <<cmd, pc, calls, result, replies, logs, unhandled, botErrors, proc, pyVars>>

\* A sendNotification without its try and catch: a rejected send is logged
\* nowhere and ends the process.
TimerFiresUncaught(delivered) ==
    /\ proc = "running"
    /\ timer = "pending"
    /\ timer' = "fired"
    /\ notifications' = Append(notifications,
                               [chatId |-> NotificationChatId, message |-> NotificationText,
                                delivered |-> delivered])
    /\ proc' = IF delivered THEN proc ELSE "crashed"
    /\ UNCHANGED <<cmd, pc, calls, result, replies, logs, unhandled, botErrors, notifyLogs, pyVars>>

\* The setTimeout callback: sendNotification sends once and logs a rejection.
TimerFires(delivered) ==
    /\ proc = "running"
    /\ timer = "pending"
    /\ timer' = "fired"
    /\ notifications' = Append(notifications,
                               [chatId |-> NotificationChatId, message |-> NotificationText,
                                delivered |-> delivered])
    /\ notifyLogs' = IF delivered THEN notifyLogs
                     ELSE Append(notifyLogs, LogEntry("Error sending notification:", TransportError))
    /\ UNCHANGED <<cmd, pc, calls, result, replies, logs, unhandled, botErrors, proc, pyVars>>

Next ==
    \/ \E c \in Cmds, delivered, fatal \in BOOLEAN : Start(c, delivered, fatal)
    \/ \E c \in Cmds, delivered, fatal \in BOOLEAN : Trade(c, delivered, fatal)
    \/ \E c \in Cmds, name \in OtherNames : NoHandler(c, name)
    \/ \E c \in Cmds : PriceRequest(c)
    \/ \E c \in Cmds, out \in AxiosOutcomes, delivered, fatal \in BOOLEAN :
          PriceResume(c, out, delivered, fatal)
    \/ \E c \in Cmds, rest \in Rests, delivered, fatal \in BOOLEAN :
          WalletRequest(c, rest, delivered, fatal)
    \/ \E c \in Cmds, out \in RpcOutcomes : WalletResume(c, out)
    \/ \E delivered \in BOOLEAN : TimerFires(delivered)

\* ------------------------------------ the bot of EXPLANATION.md (bot.py)


\* update.message.from_user.id of the senders.
Users == {1001, 1002}

NotRegistered == <<"None">>

\* WALLETS.get(user_id)
Lookup(w, user) == IF user \in DOMAIN w THEN w[user] ELSE NotRegistered

\* A dictionary write that keeps an entry that is already there.
StoreIfAbsent(w, user, key) ==
    [u \in DOMAIN w \cup {user} |-> IF u \in DOMAIN w THEN w[u] ELSE key]

\* WALLETS[user_id] = public_key
Store(w, user, key) == [u \in DOMAIN w \cup {user} |-> IF u = user THEN key ELSE w[u]]

\* The confirmed transactions an address may have at the endpoint.
MaxHistory == 6

\* A query limit as large as any history.
NoLimit == MaxHistory

\* limit=5 of the signature query of monitor.
MonitorLimit == 5

\* The RPC method getConfirmedSignaturesForAddress2 at an address with h
\* confirmed transactions: the signatures of the n most recent, newest first.
RecentSignatures(h, n) == [i \in 1..(IF h < n THEN h ELSE n) |-> h + 1 - i]

PyError == [name |-> "Exception", message |-> "HTTPSConnectionPool: Max retries exceeded"]
ValueError == [name |-> "ValueError", message |-> "invalid public key input"]
FloatError == [name |-> "ValueError", message |-> "could not convert string to float"]

\* What client.get_confirmed_signature_for_address2(key, limit=n) may meet:
\* no connection (it raises), an endpoint that answers with an error object
\* (no 'result'), or an endpoint that knows h transactions of the address.
SignatureOutcomes ==
    {[kind |-> "raised", error |-> PyError], [kind |-> "error"]}
    \cup {[kind |-> "history", count |-> h] : h \in 0..MaxHistory}

\* response.get('result', []) of the answer to a query with limit=n.
ResultOf(out, n) == IF out.kind = "history" THEN RecentSignatures(out.count, n) ELSE <<>>

\* What client.send_transaction(txn, ...) may do.
SendOutcomes ==
    {[kind |-> "raised", error |-> PyError], [kind |-> "error"],
     [kind |-> "result", result |-> <<"txid">>]}

PyStartReply       == Reply("Welcome to the Solana Telegram Bot! Use /help to see available commands.", <<>>)
PyHelpReply        == Reply("Available commands:", <<>>)
PyNoKeyReply       == Reply("Please provide a public key.", <<>>)
PySendUsageReply   == Reply("Please provide a recipient public key and amount.", <<>>)
PyNoWalletReply    == Reply("No wallet associated with your account. Use /register to add one.", <<>>)
PySentReply(tx)    == Reply("Transaction successful! TxID:", tx)
PySendFailedReply  == Reply("Transaction failed. Please try again.", <<>>)
PySendError        == Reply("Error sending tokens. Please check the inputs.", <<>>)
PyRegisteredReply(key) == Reply("Wallet registered:", key)
PyRegisterError    == Reply("Error registering wallet. Please check the public key.", <<>>)
PyMonitorReply(key, txs) == Reply("Recent transactions for wallet", <<key, txs>>)
PyNoTransactionsReply == Reply("No recent transactions found for this wallet.", <<>>)
PyMonitorError     == Reply("Error monitoring transactions. Please check the public key.", <<>>)

NoCall == <<>>

\* What a handler did: its reply, the RPC call it made (if any), its log
\* lines and the dictionary it leaves.
Handled(reply, call, ls, w) == [reply |-> reply, call |-> call, logs |-> ls, wallets |-> w]

Call(api, args) == <<[api |-> api, args |-> args]>>

\* float(text): a number or a ValueError.  The one number users write is
\* "1", and float("1") * 1e9 is LamportsPerSol.
IsNumber(text) == text = <<"1">>

\* def register(update, context)
Register(w, user, args) ==
    IF Len(args) < 2 THEN Handled(PyNoKeyReply, NoCall, <<>>, w)
    ELSE Handled(PyRegisteredReply(args[2]), NoCall, <<>>, Store(w, user, args[2]))

\* def monitor(update, context)
Monitor(w, args, out) ==
    IF Len(args) < 2 THEN Handled(PyNoKeyReply, NoCall, <<>>, w)
    ELSE IF PublicKeyThrows(args[2])
    THEN Handled(PyMonitorError, NoCall, <<LogEntry("Error monitoring transactions:", ValueError)>>, w)
    ELSE LET call == Call("get_confirmed_signature_for_address2", <<args[2], MonitorLimit>>)
             transactions == ResultOf(out, MonitorLimit)
         IN  IF out.kind = "raised"
             THEN Handled(PyMonitorError, call,
                          <<LogEntry("Error monitoring transactions:", out.error)>>, w)
             ELSE IF transactions # <<>>
             THEN Handled(PyMonitorReply(args[2], transactions), call, <<>>, w)
             ELSE Handled(PyNoTransactionsReply, call, <<>>, w)

\* str(x) of a Python float below 1e16: ".0" after a whole number, exponent
\* form (two exponent digits at least) below 1e-4, that is with four zeros
\* or more after the point.
PyExponentFormZeros == 4

PyFloatToString(dec) ==
    LET fr == StripZeroChars(Padded(dec.frac, dec.k))
        sg == NatToChars(dec.frac)
        s  == StripZeroChars(sg)
        z  == dec.k - Len(sg)
    IN  IF dec.frac = 0 THEN NatToChars(dec.int) \o <<".", "0">>
        ELSE IF dec.int = 0 /\ z >= PyExponentFormZeros
        THEN <<s[1]>> \o (IF Len(s) > 1 THEN <<".">> \o SubSeq(s, 2, Len(s)) ELSE <<>>)
             \o <<"e", "-">> \o (IF z + 1 < 10 THEN <<"0">> ELSE <<>>) \o NatToChars(z + 1)
        ELSE NatToChars(dec.int) \o <<".">> \o fr

\* f"{balance / 1e9}" for an int balance: the division converts the int to
\* the nearest float first.
PyBalanceToString(balance) ==
    PyFloatToString(ShortestDecimal(LamportsToSol(ToNumber(balance)), ToNumber(balance)))

\* The balances the endpoint reports to the Python bot.
PyBalanceValues == {Lamports(0, 0), Lamports(0, 1), Lamports(2, 500000000)}

\* What client.get_balance(key) may do: raise (no connection, a body that is
\* no JSON), or return the body: an error object without 'result', a result
\* that is null, a result without 'value', or a result with the balance.
PyBalanceOutcomes ==
    {[kind |-> "raised", error |-> PyError],
     [kind |-> "error"], [kind |-> "null"], [kind |-> "noValue"]}
    \cup {[kind |-> "value", value |-> v] : v \in PyBalanceValues}

AttributeError == [name |-> "AttributeError", message |-> "'NoneType' object has no attribute 'get'"]

PyBalanceReply(b)  == Reply("Wallet Balance: SOL", b)
PyBalanceError     == Reply("Error fetching balance. Please check the public key.", <<>>)

\* def balance(update, context)
Balance(w, args, out) ==
    IF Len(args) < 2 THEN Handled(PyNoKeyReply, NoCall, <<>>, w)
    ELSE IF PublicKeyThrows(args[2])
    THEN Handled(PyBalanceError, NoCall, <<LogEntry("Error fetching balance:", ValueError)>>, w)
    ELSE LET call == Call("get_balance", <<args[2]>>)
             \* .get('result', {}).get('value', 0)
             value == IF out.kind = "value" THEN out.value ELSE Lamports(0, 0)
         IN  IF out.kind = "raised"
             THEN Handled(PyBalanceError, call, <<LogEntry("Error fetching balance:", out.error)>>, w)
             ELSE IF out.kind = "null"
             THEN Handled(PyBalanceError, call,
                          <<LogEntry("Error fetching balance:", AttributeError)>>, w)
             ELSE Handled(PyBalanceReply(PyBalanceToString(value)), call, <<>>, w)

\* def send(update, context)
Send(w, user, args, out) ==
    IF Len(args) < 3 THEN Handled(PySendUsageReply, NoCall, <<>>, w)
    ELSE IF ~IsNumber(args[3])
    THEN Handled(PySendError, NoCall, <<LogEntry("Error sending tokens:", FloatError)>>, w)
    ELSE LET from_public_key == Lookup(w, user)
             call == Call("send_transaction", <<from_public_key, args[2], LamportsPerSol>>)
         IN  IF from_public_key = NotRegistered THEN Handled(PyNoWalletReply, NoCall, <<>>, w)
             ELSE IF PublicKeyThrows(from_public_key) \/ PublicKeyThrows(args[2])
             THEN Handled(PySendError, NoCall, <<LogEntry("Error sending tokens:", ValueError)>>, w)
             ELSE IF out.kind = "raised"
             THEN Handled(PySendError, call, <<LogEntry("Error sending tokens:", out.error)>>, w)
             ELSE IF out.kind = "result" THEN Handled(PySentReply(out.result), call, <<>>, w)
             ELSE Handled(PySendFailedReply, call, <<>>, w)

InitPy ==
    /\ WALLETS = <<>>
    /\ pyCount = 0
    /\ pyLast = [user |-> 0, name |-> "", rest |-> <<>>, out |-> NoResult,
                 did |-> Handled(Reply("", <<>>), NoCall, <<>>, <<>>)]
    /\ registered = [u \in Users |-> <<>>]

\* The dispatcher runs one handler at a time, from the update to the reply.
\* An RPC answer exists exactly when the handler made the call.
PyHandle(user, name, rest, out, did) ==
    /\ pyCount < MaxPyCmds
    /\ out = NoResult <=> did.call = NoCall
    /\ pyCount' = pyCount + 1
    /\ WALLETS' = did.wallets
    /\ pyLast' = [user |-> user, name |-> name, rest |-> rest,
                  out |-> IF did.call = NoCall THEN NoResult ELSE out, did |-> did]

PyStart(user) ==
    /\ PyHandle(user, "start", <<>>, NoResult, Handled(PyStartReply, NoCall, <<>>, WALLETS))
    /\ UNCHANGED <<registered, jsVars>>

PyHelp(user) ==
    /\ PyHandle(user, "help", <<>>, NoResult, Handled(PyHelpReply, NoCall, <<>>, WALLETS))
    /\ UNCHANGED <<registered, jsVars>>

PyBalance(user, rest, out) ==
    /\ pyCount < MaxPyCmds
    /\ \E did \in {Balance(WALLETS, PySplit("/balance", rest), out)} :
          PyHandle(user, "balance", rest, out, did)
    /\ UNCHANGED <<registered, jsVars>>

PySend(user, rest, out) ==
    /\ pyCount < MaxPyCmds
    /\ \E did \in {Send(WALLETS, user, PySplit("/send", rest), out)} :
          PyHandle(user, "send", rest, out, did)
    /\ UNCHANGED <<registered, jsVars>>

\* The history variable takes the key of every register command that has
\* one.
PyRegister(user, rest) ==
    LET did == Register(WALLETS, user, PySplit("/register", rest))
    IN  /\ pyCount < MaxPyCmds
        /\ PyHandle(user, "register", rest, NoResult, did)
        /\ registered' = IF HasArgument(rest)
                         THEN [registered EXCEPT ![user] = Append(@, ArgumentOf(rest))]
                         ELSE registered
        /\ UNCHANGED jsVars

PyMonitor(user, rest, out) ==
    /\ pyCount < MaxPyCmds
    /\ \E did \in {Monitor(WALLETS, PySplit("/monitor", rest), out)} :
          PyHandle(user, "monitor", rest, out, did)
    /\ UNCHANGED <<registered, jsVars>>

NextPy ==
    \/ \E user \in Users : PyStart(user)
    \/ \E user \in Users : PyHelp(user)
    \/ \E user \in Users, rest \in PyRests, out \in SendOutcomes \cup {NoResult} :
          PySend(user, rest, out)
    \/ \E user \in Users, rest \in PyRests : PyRegister(user, rest)
    \/ \E user \in Users, rest \in PyRests,
          out \in SignatureOutcomes \cup {NoResult} : PyMonitor(user, rest, out)

\* ------------------------------------------------------ specifications

Init == InitJs /\ InitPy

Spec == Init /\ [][Next]_vars

SpecPy == Init /\ [][NextPy]_vars

\* The balance command of the bot of bot.py, over a few message texts.
BalanceRests ==
    {<<>>, <<" ", "1">>, <<" ", "A">>, <<" ", " ", "B">>, <<" ", "A", " ", "1">>}

NextPyBalance ==
    \/ \E user \in Users : PyStart(user)
    \/ \E user \in Users : PyHelp(user)
    \/ \E user \in Users, rest \in BalanceRests, out \in PyBalanceOutcomes \cup {NoResult} :
          PyBalance(user, rest, out)

SpecPyBalance == Init /\ [][NextPyBalance]_vars

\* Longer runs of the bot of bot.js: one command more, over fewer message
\* texts and fewer answers of the remote services.
SeqRests == {<<" ", "A">>, <<" ", "B">>}

SeqAxiosOutcomes ==
    {[kind |-> "rejected", error |-> NetworkError],
     [kind |-> "response", data |-> [type |-> "object", SOL |-> [type |-> "number", value |-> 149994]]]}

SeqRpcOutcomes ==
    {[kind |-> "value", value |-> Lamports(0, 0)],
     [kind |-> "value", value |-> Lamports(2, 500000000)],
     [kind |-> "rejected", error |-> RpcError]}

InitSeq == InitBot(MaxCmds + 1) /\ InitPy

NextSeq ==
    \/ \E c \in Cmds, delivered \in BOOLEAN : Start(c, delivered, FALSE)
    \/ \E c \in Cmds, delivered \in BOOLEAN : Trade(c, delivered, FALSE)
    \/ \E c \in Cmds : PriceRequest(c)
    \/ \E c \in Cmds, out \in SeqAxiosOutcomes, delivered \in BOOLEAN :
          PriceResume(c, out, delivered, FALSE)
    \/ \E c \in Cmds, rest \in SeqRests : WalletRequest(c, rest, TRUE, FALSE)
    \/ \E c \in Cmds, out \in SeqRpcOutcomes : WalletResume(c, out)
    \/ \E delivered \in BOOLEAN : TimerFires(delivered)

SpecSeq == InitSeq /\ [][NextSeq]_vars

\* The same runs with what Node's event loop guarantees: the callback of a
\* timer that is due runs.  Nothing makes a remote service answer: axios.get
\* and getBalance are called without a timeout.
SpecLive ==
    Init /\ [][NextSeq]_vars /\ WF_vars(\E delivered \in BOOLEAN : TimerFires(delivered))

\* ------------------------------------------------- properties of bot.js

RepliesOf(c) == [i \in 1..Len(replies[c]) |-> replies[c][i].reply]

AllDelivered == \A c \in Cmds : \A i \in 1..Len(replies[c]) : replies[c][i].delivered

RemoteCallFailed(c) ==
    \/ result[c].kind \in {"rejected", "status"}
    \/ result[c].kind = "response"
       /\ ~(result[c].data.type = "object" /\ result[c].data.SOL.type = "number")

RecognizedNames == {"start", "price", "wallet", "balance", "trade", "register", "monitor", "help"}
UnknownCommandReply == Reply("Sorry, I don't understand that command. Use /help for instructions.", <<>>)

\* C2: a command whose name is outside the recognized set gets exactly one
\* reply, the "unknown command" message, with no remote call.
C2_UnknownCommandReplied ==
    \A c \in Cmds :
        pc[c] = "done" /\ cmd[c].name \notin RecognizedNames =>
            RepliesOf(c) = <<UnknownCommandReply>> /\ calls[c] = <<>>

\* C3: when the price lookup fails (request rejected, status outside 2xx,
\* body that is no object, no SOL field or one that is no number) the one
\* reply is the fixed apology, never a price; the lookup error is logged by
\* the handler and never reaches bot.catch.
C3_PriceFailureReply ==
    /\ \A c \in Cmds :
          cmd[c].name = "price" /\ pc[c] = "done" /\ RemoteCallFailed(c) =>
             /\ Len(replies[c]) = 1
             /\ replies[c][1].reply.msg = "Failed to fetch token price. Please try again later."
             /\ replies[c][1].reply.arg = <<>>
             /\ Len(logs[c]) = 1
    /\ \A i \in 1..Len(botErrors) : botErrors[i].text = TransportError.message

\* Price commands done after each kind of failure.
C3_Witness ==
    /\ cmd[1].name = "price" /\ pc[1] = "done" /\ result[1].kind = "status"
    /\ replies[1][1].delivered
    /\ cmd[2].name = "price" /\ pc[2] = "done" /\ result[2].kind = "response"
    /\ result[2].data.type = "object" /\ result[2].data.SOL.type = "undefined"
    /\ replies[2][1].delivered

UsageHint(c) ==
    RepliesOf(c) = <<Reply("Please provide a valid Solana wallet address. Example: /wallet <address>", <<>>)>>

\* C4: the wallet command answers with the usage hint, and makes no remote
\* call, exactly when the message has no address argument after the command
\* name, however many spaces separate them and whatever follows.
C4_UsageHintIffNoArgument ==
    \A c \in Cmds :
        cmd[c].name = "wallet" /\ pc[c] = "done" =>
            /\ UsageHint(c) <=> ~HasArgument(cmd[c].rest)
            /\ UsageHint(c) => calls[c] = <<>>

\* C5: a wallet command whose argument is no valid address issues no balance
\* request and is answered with the generic failure message.
C5_InvalidAddressNoRequest ==
    \A c \in Cmds :
        /\ cmd[c].name = "wallet" /\ HasArgument(cmd[c].rest)
        /\ ArgumentOf(cmd[c].rest) \notin ValidAddresses
        => /\ calls[c] = <<>>
           /\ pc[c] = "done"
           /\ RepliesOf(c) = <<Reply("Invalid wallet address or failed to fetch balance. Please try again.", <<>>)>>

ErrorTexts ==
    {e.message : e \in {NetworkError, StatusError, TypeError, KeyError, RpcError, TransportError}}

InvalidAddressFailure(c) ==
    /\ cmd[c].name = "wallet" /\ pc[c] = "done" /\ calls[c] = <<>>
    /\ ~Falsy(WalletAddressOf("/wallet", cmd[c].rest))

LookupFailure(c) == cmd[c].name = "wallet" /\ pc[c] = "done" /\ result[c].kind = "rejected"

\* C6: a wallet command that failed on its address and one that failed on
\* the balance request, with whatever error, are answered with the same
\* text; and no reply, nor the notification, carries the text of an error.
C6_SameFailureReply ==
    /\ \A c, d \in Cmds :
          (InvalidAddressFailure(c) \/ LookupFailure(c)) /\ (InvalidAddressFailure(d) \/ LookupFailure(d))
             => RepliesOf(c) = RepliesOf(d) /\ Len(replies[c]) = 1
    /\ \A c \in Cmds : \A i \in 1..Len(replies[c]) :
          /\ replies[c][i].reply.msg \notin ErrorTexts
          /\ \A m \in ErrorTexts : replies[c][i].reply.arg # <<m>>
    /\ \A i \in 1..Len(notifications) : notifications[i].message \notin ErrorTexts

\* One wallet command failed on its address, the other on the request.
C6_Witness ==
    /\ InvalidAddressFailure(1) /\ LookupFailure(2)
    /\ replies[1][1].delivered /\ replies[2][1].delivered

DigitOf(ch) == CHOOSE d \in 0..9 : DigitChars[d + 1] = ch
IndexOf(s, ch) == IF \E i \in 1..Len(s) : s[i] = ch THEN CHOOSE i \in 1..Len(s) : s[i] = ch ELSE 0
DigitsOf(s) == [i \in 1..Len(s) |-> DigitOf(s[i])]
Zeros(n) == [i \in 1..n |-> 0]
NotWhole == [hi |-> -1, lo |-> -1]

\* The lamports a printed balance stands for: the printed decimal (with or
\* without an exponent) times 1e9, when that is a whole number.
DisplayedLamports(text) ==
    LET e     == IndexOf(text, "e")
        mant  == IF e = 0 THEN text ELSE SubSeq(text, 1, e - 1)
        ex    == IF e = 0 THEN 0 ELSE DigitsValue(DigitsOf(SubSeq(text, e + 2, Len(text))))
        p     == IndexOf(mant, ".")
        int   == DigitsOf(IF p = 0 THEN mant ELSE SubSeq(mant, 1, p - 1))
        frac  == IF p = 0 THEN <<>> ELSE DigitsOf(SubSeq(mant, p + 1, Len(mant)))
        scale == 9 - ex - Len(frac)
        all   == int \o frac
        cut   == IF scale >= 0 THEN all \o Zeros(scale) ELSE SubSeq(all, 1, Len(all) + scale)
        lost  == IF scale >= 0 THEN <<>>
                 ELSE SubSeq(all, IF Len(all) + scale < 0 THEN 1 ELSE Len(all) + scale + 1, Len(all))
        n     == Len(cut)
    IN  IF \E i \in 1..Len(lost) : lost[i] # 0 THEN NotWhole
        ELSE [hi |-> DigitsValue(SubSeq(cut, 1, n - 9)),
              lo |-> DigitsValue(SubSeq(cut, IF n > 9 THEN n - 8 ELSE 1, n))]

\* C7: for a balance of L lamports the wallet reply shows exactly L / 1e9,
\* and never a negative number.
C7_DisplayedBalanceExact ==
    \A c \in Cmds :
        cmd[c].name = "wallet" /\ pc[c] = "done" /\ result[c].kind = "value" =>
            /\ Len(replies[c]) = 1
            /\ replies[c][1].reply.msg = "Wallet balance: SOL"
            /\ replies[c][1].reply.arg[1] # "-"
            /\ DisplayedLamports(replies[c][1].reply.arg) = result[c].value

\* ------------------------------------ properties of the bot of bot.py

LastRegistered(u) ==
    IF registered[u] = <<>> THEN NotRegistered ELSE registered[u][Len(registered[u])]

SendLooksUp ==
    /\ pyLast.name = "send"
    /\ Len(PySplit("/send", pyLast.rest)) >= 3
    /\ IsNumber(PySplit("/send", pyLast.rest)[3])

\* C8: after any sequence of commands, the lookup for an owner gives the key
\* of that owner's latest register command (the handler accepts every key),
\* whatever the other owners registered in between; a send uses that key as
\* its source; an owner who never registered gets the not-registered result,
\* and a send of theirs the "No wallet associated" reply instead of an error.
C8_LastWriteWins ==
    /\ \A u \in Users : Lookup(WALLETS, u) = LastRegistered(u)
    /\ SendLooksUp /\ registered[pyLast.user] = <<>> =>
          /\ pyLast.did.reply.msg = "No wallet associated with your account. Use /register to add one."
          /\ pyLast.did.call = NoCall
    /\ pyLast.name = "send" /\ pyLast.did.call # NoCall =>
          pyLast.did.call[1].args[1] = LastRegistered(pyLast.user)

\* An owner registered one valid key and then another, and sends from the
\* second, while the other owner's entry is still empty.
C8_Witness ==
    /\ registered[1001] = <<<<"A">>, <<"B">>>>
    /\ registered[1002] = <<>>
    /\ pyLast.name = "send" /\ pyLast.user = 1001
    /\ pyLast.did.call # NoCall
    /\ pyLast.did.call[1].args[1] = <<"B">>

\* C9: a register command whose argument is no valid address is answered
\* with an error, and the registry holds valid addresses only.
C9_RegistryHoldsValidAddresses ==
    /\ \A u \in DOMAIN WALLETS : WALLETS[u] \in ValidAddresses
    /\ /\ pyLast.name = "register" /\ HasArgument(pyLast.rest)
       /\ ArgumentOf(pyLast.rest) \notin ValidAddresses
       => pyLast.did.reply.msg = "Error registering wallet. Please check the public key."

\* The signatures the endpoint returned to the last monitor command.
Returned == ResultOf(pyLast.out, pyLast.did.call[1].args[2])

\* C10: a monitor command to which the endpoint returns no signature is
\* answered with "No recent transactions found for this wallet."; one to
\* which it returns k >= 1 signatures is answered with the list of exactly
\* those, for the key asked about; and a list never has more than 5.
C10_MonitorReplies ==
    pyLast.name = "monitor" /\ pyLast.did.call # NoCall /\ pyLast.out.kind = "history" =>
        /\ Returned = <<>> =>
              pyLast.did.reply = Reply("No recent transactions found for this wallet.", <<>>)
        /\ Returned # <<>> =>
              /\ pyLast.did.reply.msg = "Recent transactions for wallet"
              /\ pyLast.did.reply.arg = <<ArgumentOf(pyLast.rest), Returned>>
              /\ Len(pyLast.did.reply.arg[2]) <= 5
        /\ pyLast.did.logs = <<>>

\* A monitor command for a valid address of which the endpoint knows no
\* transaction.
C10_Witness ==
    /\ pyLast.name = "monitor" /\ pyLast.did.call # NoCall
    /\ pyLast.out.kind = "history" /\ pyLast.out.count = 0
    /\ pyLast.did.reply.msg = "No recent transactions found for this wallet."

\* ------------------------------------------ more properties of bot.js

SameWalletQuery(c, d) ==
    /\ cmd[c].name = "wallet" /\ cmd[d].name = "wallet"
    /\ pc[c] = "done" /\ pc[d] = "done"
    /\ HasArgument(cmd[c].rest) /\ HasArgument(cmd[d].rest)
    /\ ArgumentOf(cmd[c].rest) = ArgumentOf(cmd[d].rest)
    /\ ArgumentOf(cmd[c].rest) \in ValidAddresses
    /\ result[c] = result[d]

\* C11: two wallet commands with the same valid address to which the
\* endpoint gave the same answer get the same reply, whatever commands were
\* handled before or between them.
C11_WalletIdempotent ==
    \A c, d \in Cmds : SameWalletQuery(c, d) => RepliesOf(c) = RepliesOf(d) /\ Len(replies[c]) = 1

\* The same wallet query before and after a command of another kind or for
\* another address, answered with a balance.
C11_Witness ==
    /\ SameWalletQuery(1, 3) /\ result[1].kind = "value"
    /\ pc[2] = "done"
    /\ cmd[2].name = "price" \/ (cmd[2].name = "wallet" /\ cmd[2].rest # cmd[1].rest)

\* C12: a balance command gets the reply, and makes the remote calls, of a
\* wallet command with the same text after the command name.
C12_BalanceIsAlias ==
    \A c, d \in Cmds :
        /\ cmd[c].name = "wallet" /\ cmd[d].name = "balance" /\ cmd[c].rest = cmd[d].rest
        /\ pc[c] = "done" /\ pc[d] = "done" /\ result[c] = result[d]
        => RepliesOf(c) = RepliesOf(d) /\ calls[c] = calls[d]

\* C13: the notification is sent at most once, to the chat id of the
\* timer callback: it is pending until the timer fires, the firing makes the
\* one send attempt, nothing is sent and the timer does not fire again after
\* that, whatever commands are handled; and the timer does fire, unless the
\* process has ended before.
C13_NotificationOnce ==
    /\ [](/\ Len(notifications) <= 1
          /\ timer = "pending" <=> notifications = <<>>
          /\ \A i \in 1..Len(notifications) : notifications[i].chatId = 123456789)
    /\ [][timer = "fired" => UNCHANGED <<timer, notifications, notifyLogs>>]_vars
    /\ <>(timer = "fired" \/ proc = "crashed")

\* The timer has fired between two commands.
C13_Witness ==
    /\ timer = "fired" /\ Len(notifications) = 1
    /\ pc[1] = "done" /\ pc[2] = "idle" /\ proc = "running"

\* C14: every price or wallet command waiting for its remote call is
\* answered in the end, although the remote service may never answer.
C14_EveryCommandAnswered ==
    \A c \in 1..MaxCmds :
        (pc[c] \in {"awaitPrice", "awaitBalance"}) ~> (pc[c] = "done" \/ proc = "crashed")

\* C15: a reply that Telegram rejects is logged, by the handler or by
\* bot.catch, and never left as an unhandled rejection; the process runs on.
C15_TransportFailureContained ==
    /\ unhandled = {} /\ proc = "running"
    /\ \A c \in Cmds :
          (\E i \in 1..Len(replies[c]) : ~replies[c][i].delivered) =>
             \/ \E j \in 1..Len(logs[c]) : logs[c][j].text = TransportError.message
             \/ \E j \in 1..Len(botErrors) : botErrors[j].text = TransportError.message

\* C16: a balance command whose RPC call brings no balance (the call raises,
\* or the body is an error object, a null result or a result without a value)
\* is answered with the failure reply, never with a balance.
C16_MalformedBalanceFails ==
    pyLast.name = "balance" /\ pyLast.did.call # NoCall /\ pyLast.out.kind # "value" =>
        /\ pyLast.did.reply.msg # "Wallet Balance: SOL"
        /\ pyLast.did.reply = Reply("Error fetching balance. Please check the public key.", <<>>)

C18_NotificationFailureIgnored ==
    /\ [](/\ \A i \in 1..Len(notifications) :
                ~notifications[i].delivered =>
                   /\ Len(notifications) = 1 /\ timer = "fired"
                   /\ notifyLogs = <<LogEntry("Error sending notification:", TransportError)>>
          /\ (\A i \in 1..Len(notifications) : notifications[i].delivered) => notifyLogs = <<>>
          /\ proc = "crashed" => unhandled # {})
    /\ [][notifications' # notifications =>
             UNCHANGED <<cmd, pc, calls, result, replies, logs, unhandled, botErrors, proc>>]_vars
    /\ [][timer = "fired" => UNCHANGED <<timer, notifications, notifyLogs>>]_vars

\* The notification was rejected, and the commands got their replies.
C18_Witness ==
    /\ Len(notifications) = 1 /\ ~notifications[1].delivered /\ Len(notifyLogs) = 1
    /\ \A c \in 1..MaxCmds :
          /\ pc[c] = "done" /\ cmd[c].name \in {"price", "wallet"} /\ result[c] # NoResult
          /\ Len(replies[c]) = 1 /\ replies[c][1].delivered
    /\ proc = "running"

\* C19: a price or wallet command waiting for its remote call has sent
\* nothing; the reply it sends is the one its own result gives; and whatever
\* other commands wait for, the next command can be handled at once.
C19_ReplyAfterOwnCall ==
    \A c \in Cmds :
        /\ pc[c] \in {"awaitPrice", "awaitBalance"} => replies[c] = <<>> /\ result[c] = NoResult
        /\ cmd[c].name \in {"price", "wallet"} /\ calls[c] # <<>> /\ replies[c] # <<>> =>
              /\ result[c] # NoResult
              /\ cmd[c].name = "price" => RepliesOf(c) = PriceAfterAwait(result[c]).replies
              /\ cmd[c].name = "wallet" /\ result[c].kind = "rejected" =>
                    RepliesOf(c) = <<WalletFailureReply>>
              /\ cmd[c].name = "wallet" /\ result[c].kind = "value" =>
                    /\ Len(replies[c]) = 1
                    /\ replies[c][1].reply.msg = "Wallet balance: SOL"
                    /\ \A d \in Cmds :
                          cmd[d].name = "wallet" /\ replies[d] # <<>> /\ result[d] = result[c] =>
                             RepliesOf(d) = RepliesOf(c)
        /\ Arrives(c) => ENABLED Start(c, TRUE, FALSE) /\ ENABLED Trade(c, TRUE, FALSE)

\* A start or trade command answered while the command before it still
\* waits for its remote call.
C19_Witness ==
    /\ pc[1] \in {"awaitPrice", "awaitBalance"} /\ replies[1] = <<>>
    /\ cmd[2].name \in {"start", "trade"} /\ pc[2] = "done"
    /\ Len(replies[2]) = 1 /\ replies[2][1].delivered

\* The integer of a balance in decimal digits.
LamportsToChars(b) == IF b.hi = 0 THEN NatToChars(b.lo) ELSE NatToChars(b.hi) \o Padded(b.lo, 9)

Contains(text, part) ==
    \E i \in 0..(Len(text) - Len(part)) : SubSeq(text, i + 1, i + Len(part)) = part

\* C20: the reply of a wallet command that got a balance shows the integer
\* number of lamports the endpoint returned.
C20_ReplyShowsLamports ==
    \A c \in Cmds :
        cmd[c].name = "wallet" /\ pc[c] = "done" /\ result[c].kind = "value" =>
            Contains(replies[c][1].reply.arg, LamportsToChars(result[c].value))

====
